---- MODULE Spec2Model ----
(***************************************************************************)
(* Str v0.40 (src/str.hpp): a string with an optional local buffer.        *)
(* The model follows one Str / StrN<N> object through its operations,      *)
(* with the memory it points into (its local buffer, malloc'ed blocks,     *)
(* the caller's referenced bytes and the shared EmptyBuffer literal), and  *)
(* a memberwise copy of the object made by the implicit copy constructor.  *)
(***************************************************************************)
EXTENDS Integers, Sequences, FiniteSets, TLC

\* ------------------------------------------------------------------ bounds
\* Calls made on the object between its construction and its destruction.
MaxCalls == 3
\* Longest content the model lets an append produce.
MaxSize == 20
\* malloc returns one of the addresses 1..MaxAddr that is not live.
MaxAddr == 2

\* Width of the m_size and m_capacity bit-fields, and of m_local_size.
SizeBits == 24
LocalBits == 8

\* Bytes; 0 is the terminator '\0'.
Byte == {0, 1, 2}
\* What malloc's memory and an uninitialised local buffer may hold.
Fills == {0, 1}
Addr == 1..MaxAddr

Min(x, y) == IF x <= y THEN x ELSE y
Max(x, y) == IF x >= y THEN x ELSE y

\* A run of n bytes 'a' (here the byte 1).
Run(n) == [i \in 1..n |-> 1]
\* The byte sequences the calls are made with. The lengths are those that
\* meet a 16 byte local buffer: 10 + 5 + 1 = 16, 15 + 1 = 16, 16 = 16, and
\* the one that fills the 256 bytes of a Str256.
SetInputs == {<<>>, <<1, 2>>, Run(10), Run(15), Run(16), Run(256)}
\* The byte that follows the bytes of set's argument in the caller's memory.
Trail == {0, 2}
RefInputs == {<<>>, <<2, 1>>, Run(10)}
\* <<2, 0, 1>> has an embedded '\0'.
AppendInputs == {<<>>, <<2>>, <<2, 0, 1>>, Run(5), Run(6), Run(7)}
\* What the format arguments render as.
FmtInputs == {<<2>>, Run(6), Run(10)}
\* The template argument LOCALBUFFSIZE; 0 is the base type Str.
Variants == {0, 16, 256}
\* Local buffer sizes around the limits: the 8 bits of m_local_size, the
\* constructor's assertion and the 1023 bytes of the documentation.
CtorSizes == {1, 16, 255, 256, 257, 1023}
\* Arguments of direct reserve / reserve_discard calls.
ReserveArgs == {3, 12, 20}

\* Arguments of operator[]: the last byte, the first and the second.
IndexArgs == {-1, 0, 1}

InBound(n) == n <= MaxSize

\* ------------------------------------------------------------------ memory
\* A block of memory: alloc bytes; the bytes at offsets below Len(bytes) are
\* bytes, the others have never been written and all hold fill, a value the
\* allocation chose.
RECURSIVE LastWritten(_, _, _)
LastWritten(bytes, fill, n) ==
    IF n = 0 \/ bytes[n] # fill THEN n ELSE LastWritten(bytes, fill, n - 1)

Trim(bytes, fill) == SubSeq(bytes, 1, LastWritten(bytes, fill, Len(bytes)))

Blk(n, g) == [alloc |-> n, fill |-> g, bytes |-> <<>>]

ByteAt(b, off) == IF off < Len(b.bytes) THEN b.bytes[off + 1] ELSE b.fill

\* The block after w is written at offset off; bytes past alloc land outside it.
Store(b, off, w) ==
    LET n == Max(Len(b.bytes), Min(off + Len(w), b.alloc))
        raw == [i \in 1..n |->
                  IF i - 1 >= off /\ i - 1 < off + Len(w)
                  THEN w[i - off] ELSE ByteAt(b, i - 1)]
    IN [b EXCEPT !.bytes = Trim(raw, b.fill)]

\* Pointers.
EmptyBuffer == [k |-> "empty", a |-> 0]
local_buf(inst) == [k |-> "local", a |-> inst]
HeapPtr(a) == [k |-> "heap", a |-> a]
ExtPtr == [k |-> "ext", a |-> 0]
\* The null pointer, which malloc returns when it has no memory.
NullPtr == [k |-> "null", a |-> 0]
\* In the place of the content of a fresh block: malloc returned NULL.
Failed == -1

\* The literal "\0NULL" EmptyBuffer points to.
EmptyBlock == [alloc |-> 6, fill |-> 0, bytes |-> <<0, 78, 85, 76, 76>>]
FreedBlock == [live |-> FALSE, alloc |-> 0, fill |-> 0, bytes |-> <<>>]

VARIABLES
    N,             \* LOCALBUFFSIZE of the object's type (0 for Str)
    oom,           \* malloc may run out of memory
    m_data, m_size, m_local_size, m_capacity, m_owned,
    m_local_buf,   \* StrN::m_local_buf, a block of N bytes
    heap,          \* malloc's blocks, by address
    ext,           \* the caller's bytes last handed to set_ref
    alive,         \* the object has not been destroyed
    copy,          \* a memberwise copy of the object (implicit copy constructor)
    fault,         \* "none", or the undefined behaviour / abort the run ended in
    calls,         \* the number of calls made on the object
    op, arg, ret   \* the last call, its argument and its return value

vars == <<N, oom, m_data, m_size, m_local_size, m_capacity, m_owned, m_local_buf,
          heap, ext, alive, copy, fault, calls, op, arg, ret>>

\* The object and the memory as one value the functions below transform.
\* ok = FALSE marks a choice of malloc's result that the heap does not allow.
Cur == [data |-> m_data, size |-> m_size, local_size |-> m_local_size,
        capacity |-> m_capacity, owned |-> m_owned, lbuf |-> m_local_buf,
        heap |-> heap, ext |-> ext, fault |-> fault, ok |-> TRUE, ret |-> 0]

Fault(st, f) == IF st.fault = "none" THEN [st EXCEPT !.fault = f] ELSE st

BlockOf(st, p) ==
    CASE p.k = "local" -> st.lbuf
      [] p.k = "heap"  -> st.heap[p.a]
      [] p.k = "ext"   -> st.ext
      [] OTHER         -> EmptyBlock

\* The n bytes at p.
ReadBytes(st, p, n) == [i \in 1..n |-> ByteAt(BlockOf(st, p), i - 1)]

\* Writing w at p + off. Writing nothing touches nothing.
Write(st, p, off, w) ==
    IF Len(w) = 0 \/ st.fault # "none" THEN st
    ELSE LET b == BlockOf(st, p)
             over == off + Len(w) > b.alloc
             s1 == CASE p.k = "local" -> [st EXCEPT !.lbuf = Store(b, off, w)]
                     [] p.k = "heap" ->
                          IF b.live THEN [st EXCEPT !.heap[p.a] = Store(b, off, w)]
                          ELSE Fault(st, "use_after_free")
                     [] p.k = "ext" -> [st EXCEPT !.ext = Store(b, off, w)]
                     [] p.k = "null" -> Fault(st, "null_deref")
                     [] OTHER -> Fault(st, "write_to_literal")
         IN IF over THEN Fault(s1, "overrun") ELSE s1

\* STR_MEMALLOC(n): the lowest address that is not live, its bytes all g.
\* NextAddr is 0 when every address is live.
NextAddr(st) ==
    LET free_addrs == {a \in Addr : ~st.heap[a].live}
    IN IF free_addrs = {} THEN 0
       ELSE CHOOSE a \in free_addrs : \A b \in free_addrs : a <= b

malloc(st, n, g) ==
    IF st.fault # "none" \/ g = Failed THEN st
    ELSE IF NextAddr(st) = 0 THEN [st EXCEPT !.ok = FALSE]
    ELSE [st EXCEPT !.heap[NextAddr(st)] = [live |-> TRUE] @@ Blk(n, g)]

\* The pointer that call of malloc returns.
malloc_ptr(st, g) == IF g = Failed THEN NullPtr ELSE HeapPtr(NextAddr(st))

\* STR_MEMFREE(p).
free(st, p) ==
    IF st.fault # "none" THEN st
    ELSE IF p = NullPtr THEN st
    ELSE IF p.k # "heap" THEN Fault(st, "invalid_free")
    ELSE IF ~st.heap[p.a].live THEN Fault(st, "double_free")
    ELSE [st EXCEPT !.heap[p.a] = FreedBlock]

\* memcpy(dst, src, n) between two of the blocks.
memcpy(st, dst, src, n) ==
    IF n = 0 \/ st.fault # "none" THEN st
    ELSE LET b == BlockOf(st, src) IN
         IF src = NullPtr THEN Fault(st, "null_deref")
         ELSE IF src.k = "heap" /\ ~b.live THEN Fault(st, "use_after_free")
         ELSE IF n > b.alloc THEN Fault(st, "overread")
         ELSE Write(st, dst, 0, ReadBytes(st, src, n))

is_using_local_buf(st) == st.data = local_buf(0)

Wrap(n, bits) == n % (2 ^ bits)


\* ------------------------------------------------------- Str's functions
\* Each takes the object with its memory and returns them as the call leaves
\* them; g is what the bytes of a block malloc returns hold.

\* Str::Str(): m_data = EmptyBuffer.
Str_default ==
    [data |-> EmptyBuffer, size |-> 0, local_size |-> 0, capacity |-> 0,
     owned |-> 0, fault |-> "none"]

\* Str::Str(int local_buf_size), called by StrN<n>() with a buffer of n bytes
\* whose bytes are g: STR_ASSERT(local_buf_size <= 256), m_data[0] = '\0',
\* the bit-fields keep their width.
Str_local(n, g) ==
    [data |-> local_buf(0), size |-> 0, local_size |-> Wrap(n, LocalBits),
     capacity |-> Wrap(n, SizeBits), owned |-> 1,
     lbuf |-> Store(Blk(n, g), 0, <<0>>),
     fault |-> IF n <= 256 THEN "none" ELSE "assert"]

\* reserve_discard returning early on an unowned object too.
reserve_discard_unowned(st, new_capacity, g) ==
    IF st.fault # "none" THEN st
    ELSE IF new_capacity <= st.capacity THEN st
    ELSE LET s1 == IF st.owned = 1 /\ ~is_using_local_buf(st)
                   THEN free(st, st.data) ELSE st
             s2 == IF new_capacity < s1.local_size
                   THEN [s1 EXCEPT !.data = local_buf(0),
                                   !.capacity = s1.local_size]
                   ELSE [malloc(s1, new_capacity, g) EXCEPT
                                   !.data = malloc_ptr(s1, g),
                                   !.capacity = Wrap(new_capacity, SizeBits)]
         IN [s2 EXCEPT !.owned = 1]

\* Reserve memory, discarding the current of the buffer.
reserve_discard(st, new_capacity, g) ==
    IF st.fault # "none" THEN st
    ELSE IF st.owned = 1 /\ new_capacity <= st.capacity THEN st
    ELSE LET s1 == IF st.owned = 1 /\ ~is_using_local_buf(st)
                   THEN free(st, st.data) ELSE st
             s2 == IF new_capacity < s1.local_size
                   THEN [s1 EXCEPT !.data = local_buf(0),
                                   !.capacity = s1.local_size]
                   ELSE [malloc(s1, new_capacity, g) EXCEPT
                                   !.data = malloc_ptr(s1, g),
                                   !.capacity = Wrap(new_capacity, SizeBits)]
         IN [s2 EXCEPT !.owned = 1]

\* reserve returning early one byte too soon.
reserve_offbyone(st, new_capacity, g) ==
    IF st.fault # "none" THEN st
    ELSE IF new_capacity <= st.capacity + 1 THEN st
    ELSE LET toLocal == new_capacity < st.local_size
             new_data == IF toLocal THEN local_buf(0) ELSE malloc_ptr(st, g)
             cap == IF toLocal THEN st.local_size ELSE new_capacity
             s1 == IF toLocal THEN st ELSE malloc(st, new_capacity, g)
             s2 == memcpy(s1, new_data, st.data, st.size)
             s3 == Write(s2, new_data, st.size, <<0>>)
             s4 == IF st.owned = 1 /\ ~is_using_local_buf(st)
                   THEN free(s3, st.data) ELSE s3
         IN [s4 EXCEPT !.data = new_data, !.capacity = Wrap(cap, SizeBits),
                       !.owned = 1]

\* reserve without the release of the old heap block.
reserve_nofree(st, new_capacity, g) ==
    IF st.fault # "none" THEN st
    ELSE IF new_capacity <= st.capacity THEN st
    ELSE LET toLocal == new_capacity < st.local_size
             new_data == IF toLocal THEN local_buf(0) ELSE malloc_ptr(st, g)
             cap == IF toLocal THEN st.local_size ELSE new_capacity
             s1 == IF toLocal THEN st ELSE malloc(st, new_capacity, g)
             s2 == memcpy(s1, new_data, st.data, st.size)
             s3 == Write(s2, new_data, st.size, <<0>>)
         IN [s3 EXCEPT !.data = new_data, !.capacity = Wrap(cap, SizeBits),
                       !.owned = 1]

\* Reserve memory, preserving the current of the buffer.
reserve(st, new_capacity, g) ==
    IF st.fault # "none" THEN st
    ELSE IF new_capacity <= st.capacity THEN st
    ELSE LET toLocal == new_capacity < st.local_size
             new_data == IF toLocal THEN local_buf(0) ELSE malloc_ptr(st, g)
             cap == IF toLocal THEN st.local_size ELSE new_capacity
             s1 == IF toLocal THEN st ELSE malloc(st, new_capacity, g)
             s2 == memcpy(s1, new_data, st.data, st.size)
             s3 == Write(s2, new_data, st.size, <<0>>)
             s4 == IF st.owned = 1 /\ ~is_using_local_buf(st)
                   THEN free(s3, st.data) ELSE s3
         IN [s4 EXCEPT !.data = new_data, !.capacity = Wrap(cap, SizeBits),
                       !.owned = 1]

\* shrink_to_fit keeping the block one byte short of the terminator.
shrink_to_size(st, g) ==
    IF st.fault # "none" THEN st
    ELSE IF st.owned = 0 \/ is_using_local_buf(st) THEN st
    ELSE LET new_capacity == st.size IN
         IF st.capacity <= new_capacity THEN st
         ELSE LET new_data == malloc_ptr(st, g)
                  s1 == malloc(st, new_capacity, g)
                  s2 == memcpy(s1, new_data, st.data, new_capacity)
                  s3 == free(s2, st.data)
              IN [s3 EXCEPT !.data = new_data, !.capacity = new_capacity]

shrink_to_fit(st, g) ==
    IF st.fault # "none" THEN st
    ELSE IF st.owned = 0 \/ is_using_local_buf(st) THEN st
    ELSE LET new_capacity == st.size + 1 IN
         IF st.capacity <= new_capacity THEN st
         ELSE LET new_data == malloc_ptr(st, g)
                  s1 == malloc(st, new_capacity, g)
                  s2 == memcpy(s1, new_data, st.data, new_capacity)
                  s3 == free(s2, st.data)
              IN [s3 EXCEPT !.data = new_data, !.capacity = new_capacity]

clear(st) ==
    IF st.fault # "none" THEN st
    ELSE LET s1 == IF st.owned = 1 /\ ~is_using_local_buf(st)
                   THEN free(st, st.data) ELSE st
             s2 == IF s1.local_size # 0
                   THEN [Write(s1, local_buf(0), 0, <<0>>) EXCEPT
                            !.data = local_buf(0),
                            !.capacity = s1.local_size, !.owned = 1]
                   ELSE [s1 EXCEPT !.data = EmptyBuffer, !.capacity = 0,
                                   !.owned = 0]
         IN [s2 EXCEPT !.size = 0]

\* set recording the length with the terminator counted.
set_size_buf_len(st, src, t, g) ==
    LET buf_len == Len(src) + 1
        s1 == reserve_discard(st, buf_len, g)
        s2 == Write(s1, s1.data, 0, Append(src, t))
    IN IF s2.fault # "none" THEN s2
       ELSE [s2 EXCEPT !.owned = 1, !.size = Wrap(buf_len, SizeBits)]

\* set copies buf_len = src.size() + 1 bytes from src.data(): the bytes of
\* src and t, the byte that follows them in the caller's memory.
set(st, src, t, g) ==
    LET buf_len == Len(src) + 1
        s1 == reserve_discard(st, buf_len, g)
        s2 == Write(s1, s1.data, 0, Append(src, t))
    IN IF s2.fault # "none" THEN s2
       ELSE [s2 EXCEPT !.owned = 1, !.size = Wrap(Len(src), SizeBits)]

\* set_ref without the release of the block the object owned.
set_ref_nofree(st, s) ==
    IF st.fault # "none" THEN st
    ELSE [st EXCEPT !.ext = [alloc |-> Len(s), fill |-> 0,
                             bytes |-> Trim(s, 0)],
                    !.data = ExtPtr,
                    !.size = Wrap(Len(s), SizeBits),
                    !.capacity = Wrap(Len(s), SizeBits),
                    !.owned = 0]

\* set_ref reporting a capacity of 0 for the referenced bytes.
set_ref_zero_capacity(st, s) ==
    IF st.fault # "none" THEN st
    ELSE LET s1 == IF st.owned = 1 /\ ~is_using_local_buf(st)
                   THEN free(st, st.data) ELSE st
         IN IF s1.fault # "none" THEN s1
            ELSE [s1 EXCEPT !.ext = [alloc |-> Len(s), fill |-> 0,
                                     bytes |-> Trim(s, 0)],
                            !.data = ExtPtr,
                            !.size = Wrap(Len(s), SizeBits),
                            !.capacity = 0,
                            !.owned = 0]

\* set_ref leaving m_owned as it was.
set_ref_keep_owned(st, s) ==
    IF st.fault # "none" THEN st
    ELSE LET s1 == IF st.owned = 1 /\ ~is_using_local_buf(st)
                   THEN free(st, st.data) ELSE st
         IN IF s1.fault # "none" THEN s1
            ELSE [s1 EXCEPT !.ext = [alloc |-> Len(s), fill |-> 0,
                                     bytes |-> Trim(s, 0)],
                            !.data = ExtPtr,
                            !.size = Wrap(Len(s), SizeBits),
                            !.capacity = Wrap(Len(s), SizeBits)]

\* set_ref points at the caller's bytes s.
set_ref(st, s) ==
    IF st.fault # "none" THEN st
    ELSE LET s1 == IF st.owned = 1 /\ ~is_using_local_buf(st)
                   THEN free(st, st.data) ELSE st
         IN IF s1.fault # "none" THEN s1
            ELSE [s1 EXCEPT !.ext = [alloc |-> Len(s), fill |-> 0,
                                     bytes |-> Trim(s, 0)],
                            !.data = ExtPtr,
                            !.size = Wrap(Len(s), SizeBits),
                            !.capacity = Wrap(Len(s), SizeBits),
                            !.owned = 0]

append(st, s, g) ==
    LET s1 == reserve(st, st.size + Len(s) + 1, g)
        s2 == Write(s1, s1.data, s1.size, s)
        size == Wrap(s1.size + Len(s), SizeBits)
        s3 == Write(s2, s2.data, size, <<0>>)
    IN IF s3.fault # "none" THEN s3
       ELSE [s3 EXCEPT !.size = size, !.ret = Len(s)]

\* strncpy(dst, s, n) for n <= Len(s): the bytes of s up to its first 0,
\* then zeros.
strncpy(s, n) ==
    [i \in 1..n |-> IF \E j \in 1..i : s[j] = 0 THEN 0 ELSE s[i]]

\* append_nogrow copying what fits before it reports the failure.
append_nogrow_truncating(st, s) ==
    IF st.fault # "none" THEN st
    ELSE LET to_copy == Min(Len(s), Max(0, st.capacity - st.size - 1))
             s1 == Write(st, st.data, st.size, strncpy(s, to_copy))
             size == Wrap(st.size + to_copy, SizeBits)
             s2 == Write(s1, s1.data, size, <<0>>)
         IN IF s2.fault # "none" THEN s2
            ELSE IF st.capacity < st.size + Len(s) + 1
                 THEN [s2 EXCEPT !.size = size, !.ret = -1]
                 ELSE [s2 EXCEPT !.size = size, !.ret = to_copy]

\* append_nogrow with no room kept for the terminator.
append_nogrow_noterm(st, s) ==
    IF st.fault # "none" THEN st
    ELSE IF st.capacity < st.size + Len(s) THEN [st EXCEPT !.ret = -1]
    ELSE LET to_copy == Min(Len(s), Max(0, st.capacity - st.size))
             s1 == Write(st, st.data, st.size, strncpy(s, to_copy))
             size == Wrap(st.size + to_copy, SizeBits)
             s2 == Write(s1, s1.data, size, <<0>>)
         IN IF s2.fault # "none" THEN [s2 EXCEPT !.size = size, !.ret = to_copy]
            ELSE [s2 EXCEPT !.size = size, !.ret = to_copy]

append_nogrow(st, s) ==
    IF st.fault # "none" THEN st
    ELSE IF st.capacity < st.size + Len(s) + 1 THEN [st EXCEPT !.ret = -1]
    ELSE LET to_copy == Min(Len(s), Max(0, st.capacity - st.size - 1))
             s1 == Write(st, st.data, st.size, strncpy(s, to_copy))
             size == Wrap(st.size + to_copy, SizeBits)
             s2 == Write(s1, s1.data, size, <<0>>)
         IN IF s2.fault # "none" THEN s2
            ELSE [s2 EXCEPT !.size = size, !.ret = to_copy]

\* fmt::format_to_n(out, n, ...) of the rendered text r: at most n bytes of
\* r, no terminator.
format_to_n(r, n) == SubSeq(r, 1, Min(Len(r), n))

\* STR_ASSERT(m_owned) compiled to nothing.
assert_owned_skipped(st) == st

\* STR_ASSERT(m_owned)
assert_owned(st) == IF st.owned = 1 THEN st ELSE Fault(st, "assert")

\* setf with the arguments rendering as r (fmt::formatted_size = Len(r)).
setf(st, r, g) ==
    LET len == Len(r)
        s1 == IF st.capacity < len + 1
              THEN reserve_discard(st, len + 1, g) ELSE st
        s2 == assert_owned(s1)
        s3 == Write(s2, s2.data, 0, format_to_n(r, s2.capacity))
    IN IF s3.fault # "none" THEN s3 ELSE [s3 EXCEPT !.ret = len]

\* setf_nogrow has the body of setf.
setf_nogrow(st, r, g) ==
    LET len == Len(r)
        s1 == IF st.capacity < len + 1
              THEN reserve_discard(st, len + 1, g) ELSE st
        s2 == assert_owned(s1)
        s3 == Write(s2, s2.data, 0, format_to_n(r, s2.capacity))
    IN IF s3.fault # "none" THEN s3 ELSE [s3 EXCEPT !.ret = len]

appendf(st, r, g) ==
    LET len == Len(r)
        s1 == IF st.capacity < len + 1 THEN reserve(st, len + 1, g) ELSE st
        s2 == assert_owned(s1)
        s3 == Write(s2, s2.data, s2.size, format_to_n(r, s2.capacity))
        size == Wrap(s2.size + len, SizeBits)
        s4 == Write(s3, s3.data, size, <<0>>)
    IN IF s4.fault # "none" THEN s4
       ELSE [s4 EXCEPT !.size = size, !.ret = len]

appendf_nogrow(st, r) ==
    LET len == Len(r) IN
    IF st.fault # "none" THEN st
    ELSE IF st.capacity < len + 1 THEN [st EXCEPT !.ret = -1]
    ELSE LET s2 == assert_owned(st)
             s3 == Write(s2, s2.data, s2.size, format_to_n(r, s2.capacity))
             size == Wrap(s2.size + len, SizeBits)
             s4 == Write(s3, s3.data, size, <<0>>)
         IN IF s4.fault # "none" THEN s4
            ELSE [s4 EXCEPT !.size = size, !.ret = len]

\* The int x converted to size_t (64 bits, unsigned): x itself, or for a
\* negative x the value 2^64 - v with v = -x, written [top |-> TRUE, v |-> v].
ToSizeT(x) == IF x < 0 THEN [top |-> TRUE, v |-> -x] ELSE [top |-> FALSE, v |-> x]

\* a < b between two size_t values.
LessSizeT(a, b) ==
    CASE a.top /\ b.top   -> a.v > b.v
      [] ~a.top /\ ~b.top -> a.v < b.v
      [] OTHER            -> b.top

\* operator[](size_t i) called with the int x. The bit-field m_size is
\* promoted to int, so -m_size is a negative int, and both comparisons with i
\* are made in size_t; i < 0 is false for every size_t, so the byte read is
\* m_data[i].
index(st, x) ==
    LET i == ToSizeT(x)
        in_bounds == /\ LessSizeT(ToSizeT(0 - st.size), i)
                     /\ LessSizeT(i, ToSizeT(st.size))
        b == BlockOf(st, st.data)
    IN IF st.fault # "none" THEN st
       ELSE IF ~in_bounds THEN Fault(st, "assert")
       ELSE IF st.data.k = "heap" /\ ~b.live THEN Fault(st, "use_after_free")
       ELSE IF i.top \/ i.v >= b.alloc THEN Fault(st, "overread")
       ELSE [st EXCEPT !.ret = ByteAt(b, i.v)]

\* ~Str() of the object inst whose m_data is data.
destroy(st, inst, data, owned) ==
    IF owned = 1 /\ data # local_buf(inst) THEN free(st, data) ELSE st


\* ------------------------------------------------------------ lifecycle
NoCopy == [state |-> "none", data |-> EmptyBuffer, size |-> 0, local_size |-> 0,
           capacity |-> 0, owned |-> 0]
NoExt == [alloc |-> 0, fill |-> 0, bytes |-> <<>>]

\* The object as its constructor leaves it: Str() or StrN<n>().
\* Str(std::string_view) and Str::ref are Str() followed by set / set_ref:
\* set ignores the uninitialised m_data and m_capacity when m_owned = 0.
ConstructIn(sizes) ==
    /\ N \in sizes
    /\ \E g \in Fills :
         LET c == IF N = 0 THEN Str_default @@ [lbuf |-> Blk(0, 0)]
                  ELSE Str_local(N, g)
         IN /\ m_data = c.data
            /\ m_size = c.size
            /\ m_local_size = c.local_size
            /\ m_capacity = c.capacity
            /\ m_owned = c.owned
            /\ m_local_buf = c.lbuf
            /\ fault = c.fault
    /\ heap = [a \in Addr |-> FreedBlock]
    /\ ext = NoExt
    /\ alive = TRUE
    /\ copy = NoCopy
    /\ calls = 0
    /\ op = "ctor"
    /\ arg = <<>>
    /\ ret = 0

Construct == ConstructIn(Variants)

\* malloc never fails.
Init == Construct /\ oom = FALSE

\* StrN<N>() for the sizes around the limits.
InitCtor == ConstructIn(CtorSizes) /\ oom = FALSE

\* malloc may fail at any call.
InitOOM == Construct /\ oom = TRUE

\* What a call of malloc may give: a block whose bytes all hold g, or NULL.
MallocOutcomes == IF oom THEN Fills \cup {Failed} ELSE Fills

\* The call named o with argument v left the object and the memory as r. The
\* caller's bytes are followed while the object points at them and until the
\* call after that.
Apply(r, o, v) ==
    /\ r.ok
    /\ m_data' = r.data
    /\ m_size' = r.size
    /\ m_local_size' = r.local_size
    /\ m_capacity' = r.capacity
    /\ m_owned' = r.owned
    /\ m_local_buf' = r.lbuf
    /\ heap' = r.heap
    /\ ext' = IF r.data = ExtPtr \/ m_data = ExtPtr THEN r.ext ELSE NoExt
    /\ fault' = r.fault
    /\ ret' = r.ret
    /\ op' = o
    /\ arg' = v
    /\ calls' = calls + 1
    /\ UNCHANGED <<N, oom, alive, copy>>

\* Once the object has been copied only the two destructors are followed.
Usable == alive /\ fault = "none" /\ copy.state = "none" /\ calls < MaxCalls

Set(src) ==
    /\ Usable
    /\ \E t \in Trail, g \in MallocOutcomes : Apply(set(Cur, src, t, g), "set", src)

SetRef(s) ==
    /\ Usable
    /\ Apply(set_ref(Cur, s), "set_ref", s)

AppendStr(s) ==
    /\ Usable
    /\ InBound(m_size + Len(s))
    /\ \E g \in MallocOutcomes : Apply(append(Cur, s, g), "append", s)

AppendNogrow(s) ==
    /\ Usable
    /\ InBound(m_size + Len(s))
    /\ Apply(append_nogrow(Cur, s), "append_nogrow", s)

Setf(r) ==
    /\ Usable
    /\ \E g \in MallocOutcomes : Apply(setf(Cur, r, g), "setf", r)

SetfNogrow(r) ==
    /\ Usable
    /\ \E g \in MallocOutcomes :
          Apply(setf_nogrow(Cur, r, g), "setf_nogrow", r)

Appendf(r) ==
    /\ Usable
    /\ InBound(m_size + Len(r))
    /\ \E g \in MallocOutcomes : Apply(appendf(Cur, r, g), "appendf", r)

AppendfNogrow(r) ==
    /\ Usable
    /\ InBound(m_size + Len(r))
    /\ Apply(appendf_nogrow(Cur, r), "appendf_nogrow", r)

Clear ==
    /\ Usable
    /\ Apply(clear(Cur), "clear", <<>>)

Reserve(n) ==
    /\ Usable
    /\ \E g \in MallocOutcomes : Apply(reserve(Cur, n, g), "reserve", <<n>>)

ReserveDiscard(n) ==
    /\ Usable
    /\ \E g \in MallocOutcomes :
          Apply(reserve_discard(Cur, n, g), "reserve_discard", <<n>>)

ShrinkToFit ==
    /\ Usable
    /\ \E g \in MallocOutcomes :
          Apply(shrink_to_fit(Cur, g), "shrink_to_fit", <<>>)

Index(x) ==
    /\ Usable
    /\ Apply(index(Cur, x), "index", <<x>>)

\* The caller overwrites the bytes it handed to set_ref, all with v.
MutateExt(v) ==
    /\ fault = "none"
    /\ ext.alloc > 0
    /\ LET e == Store(ext, 0, [i \in 1..ext.alloc |-> v])
       IN e # ext /\ ext' = e
    /\ op' = "mutate_ext"
    /\ arg' = <<>>
    /\ ret' = 0
    /\ UNCHANGED <<N, oom, m_data, m_size, m_local_size, m_capacity, m_owned,
                   m_local_buf, heap, alive, copy, fault, calls>>

\* Str's implicit copy constructor: every member is copied, m_data included.
Copy ==
    /\ alive /\ fault = "none"
    /\ copy.state = "none"
    /\ copy' = [state |-> "live", data |-> m_data, size |-> m_size,
                local_size |-> m_local_size, capacity |-> m_capacity,
                owned |-> m_owned]
    /\ op' = "copy"
    /\ arg' = <<>>
    /\ ret' = 0
    /\ UNCHANGED <<N, oom, m_data, m_size, m_local_size, m_capacity, m_owned,
                   m_local_buf, heap, ext, alive, fault, calls>>

\* ~Str() of the object.
Destroy ==
    /\ alive /\ fault = "none"
    /\ LET r == destroy(Cur, 0, m_data, m_owned)
       IN heap' = r.heap /\ fault' = r.fault
    /\ alive' = FALSE
    /\ op' = "dtor"
    /\ arg' = <<>>
    /\ ret' = 0
    /\ UNCHANGED <<N, oom, m_data, m_size, m_local_size, m_capacity, m_owned,
                   m_local_buf, ext, copy, calls>>

\* ~Str() of the copy, whose own local buffer is local_buf(1).
DestroyCopy ==
    /\ fault = "none"
    /\ copy.state = "live"
    /\ LET r == destroy(Cur, 1, copy.data, copy.owned)
       IN heap' = r.heap /\ fault' = r.fault
    /\ copy' = [copy EXCEPT !.state = "dead"]
    /\ op' = "dtor_copy"
    /\ arg' = <<>>
    /\ ret' = 0
    /\ UNCHANGED <<N, oom, m_data, m_size, m_local_size, m_capacity, m_owned,
                   m_local_buf, ext, alive, calls>>

\* The calls on one object, up to its destruction.
Next ==
    \/ \E s \in SetInputs : Set(s)
    \/ \E s \in RefInputs : SetRef(s)
    \/ \E s \in AppendInputs : AppendStr(s)
    \/ \E s \in AppendInputs : AppendNogrow(s)
    \/ \E r \in FmtInputs : Setf(r)
    \/ \E r \in FmtInputs : SetfNogrow(r)
    \/ \E r \in FmtInputs : Appendf(r)
    \/ \E r \in FmtInputs : AppendfNogrow(r)
    \/ Clear
    \/ \E n \in ReserveArgs : Reserve(n)
    \/ \E n \in ReserveArgs : ReserveDiscard(n)
    \/ ShrinkToFit
    \/ \E x \in IndexArgs : Index(x)
    \/ \E v \in Byte : MutateExt(v)
    \/ Destroy

Spec == Init /\ [][Next]_vars

\* The same with the object copied and the copy destroyed.
NextCopy ==
    \/ Next
    \/ Copy
    \/ DestroyCopy

SpecCopy == Init /\ [][NextCopy]_vars

\* The calls on one StrN<N> object, N around the limits.
SpecCtor == InitCtor /\ [][Next]_vars

\* The calls on one object with a malloc that may return NULL.
SpecOOM == InitOOM /\ [][Next]_vars

\* The content: std::string_view{m_data, m_size}.
View == ReadBytes(Cur, m_data, m_size)

\* view() has a value: the m_size bytes at m_data lie inside the active buffer.
ViewDefined ==
    /\ m_size <= BlockOf(Cur, m_data).alloc
    /\ m_data.k = "heap" => heap[m_data.a].live

\* ------------------------------------------------------------------ claims

\* C1: round trip of assign. From every prior state and for every byte
\* sequence x, set(x) leaves the object owned with size() = length(x) and
\* view() = x.
C1_SetRoundTrip ==
    [][op' = "set" => /\ fault' = "none"
                      /\ m_owned' = 1
                      /\ m_size' = Len(arg')
                      /\ View' = arg']_vars

\* set has replaced the content of a Str16 that an earlier call had moved to
\* the heap.
C1_Witness ==
    /\ op = "set" /\ calls = 3 /\ fault = "none"
    /\ N = 16 /\ m_data.k = "heap" /\ m_owned = 1
    /\ arg = Run(10) /\ View = Run(10)

\* C2 as stated: append preserves prior content. From every reachable prior
\* state and for every byte sequence c, append(c) reads and writes inside
\* its buffers, leaves view() = old view() followed by c and
\* size() = old size() + length(c), and returns length(c).
C2_AppendPreserves ==
    [][op' = "append" =>
           /\ fault' = "none"
           /\ View' = View \o arg'
           /\ m_size' = m_size + Len(arg')
           /\ ret' = Len(arg')]_vars

\* append does preserve the content from every prior state whose view() has a
\* value, that is whose m_size bytes lie inside the active buffer.
C2_AppendPreservesDefined ==
    [][(ViewDefined /\ op' = "append") =>
           /\ fault' = "none"
           /\ View' = View \o arg'
           /\ m_size' = m_size + Len(arg')
           /\ ret' = Len(arg')]_vars

\* append has grown a Str16 out of its local buffer: 10 + 7 bytes.
C2_Witness ==
    /\ op = "append" /\ fault = "none" /\ ret = 7 /\ arg = Run(7)
    /\ N = 16 /\ m_data.k = "heap"
    /\ View = Run(17)

\* C3: set_ref(b) leaves the object unowned; an append(c) that follows, for
\* any c, leaves it owned with b followed by c in its local buffer or a heap
\* block, and the caller overwriting b afterwards does not change view().
C3_RefThenAppend ==
    [][/\ op' = "set_ref" => m_owned' = 0 /\ View' = arg'
       /\ (m_owned = 0 /\ m_data = ExtPtr /\ op' = "append") =>
             /\ fault' = "none"
             /\ m_owned' = 1
             /\ m_data'.k \in {"local", "heap"}
             /\ View' = View \o arg'
       /\ (m_owned = 1 /\ op' = "mutate_ext") => View' = View]_vars

\* The caller has overwritten the two bytes a Str referred to before an
\* append copied them.
C3_Witness ==
    /\ op = "mutate_ext" /\ fault = "none"
    /\ ext.alloc = 2 /\ ReadBytes(Cur, ExtPtr, 2) = <<0, 0>>
    /\ m_owned = 1 /\ m_data.k = "heap"
    /\ View = <<2, 1, 2>>

\* C4: append_nogrow(s) with size + length(s) + 1 > capacity returns -1 and
\* leaves view(), size(), capacity(), owned() and the buffer where they were.
C4_NogrowFailsUnchanged ==
    [][(op' = "append_nogrow" /\ m_size + Len(arg') + 1 > m_capacity) =>
           /\ ret' = -1
           /\ fault' = "none"
           /\ m_data' = m_data
           /\ m_size' = m_size
           /\ m_capacity' = m_capacity
           /\ m_owned' = m_owned
           /\ m_local_buf' = m_local_buf
           /\ heap' = heap]_vars

\* The repository's test: a Str16 holding 10 bytes refuses 6 more.
C4_Witness ==
    /\ op = "append_nogrow" /\ arg = Run(6) /\ ret = -1 /\ calls = 2
    /\ N = 16 /\ m_data = local_buf(0) /\ m_capacity = 16
    /\ View = Run(10)

\* A Str16 in its local buffer holding 10 bytes.
Str16Holding10 == N = 16 /\ m_data = local_buf(0) /\ m_size = 10 /\ m_owned = 1

\* C5 as stated: on a Str16 holding 10 bytes append_nogrow of 6 bytes
\* succeeds and the content becomes the 16 bytes, append_nogrow of 7 bytes
\* returns -1.
C5_Original ==
    [][(Str16Holding10 /\ op' = "append_nogrow") =>
         /\ arg' = Run(6) => ret' >= 0 /\ View' = View \o Run(6)
         /\ arg' = Run(7) => ret' = -1]_vars

\* C5 amended: on a Str16 holding 10 bytes append_nogrow of 5 bytes succeeds
\* (it returns 5 and the content becomes the 15 bytes, which with the
\* terminator fill the 16 bytes); append_nogrow of 6 or of 7 bytes returns -1
\* and leaves the content as it was.
C5_NogrowBoundary ==
    [][(Str16Holding10 /\ op' = "append_nogrow") =>
         /\ arg' = Run(5) =>
               ret' = 5 /\ View' = View \o Run(5) /\ fault' = "none"
         /\ arg' = Run(6) => ret' = -1 /\ View' = View
         /\ arg' = Run(7) => ret' = -1 /\ View' = View]_vars

\* The 5 bytes went in: the Str16 holds 15 bytes and the terminator.
C5_Witness ==
    /\ op = "append_nogrow" /\ arg = Run(5) /\ ret = 5 /\ fault = "none"
    /\ N = 16 /\ m_data = local_buf(0) /\ m_size = 15
    /\ ByteAt(m_local_buf, 15) = 0

\* C6 as stated: appendf never overruns the buffer. From every owned state
\* every byte appendf writes lies inside the active buffer, and afterwards
\* size <= capacity.
C6_AppendfNoOverrun ==
    [][(m_owned = 1 /\ op' = "appendf") =>
           /\ fault' # "overrun"
           /\ m_size' <= m_capacity']_vars

\* C7 as stated: from every reachable state that satisfies size <= capacity,
\* append_nogrow and appendf_nogrow return -1 whenever
\* size + len + 1 > capacity, write no byte at an offset >= capacity, and
\* leave size <= capacity.
C7_NogrowNoOverrun ==
    [][(m_size <= m_capacity /\ op' \in {"append_nogrow", "appendf_nogrow"}) =>
           /\ m_size + Len(arg') + 1 > m_capacity => ret' = -1
           /\ fault' # "overrun"
           /\ m_size' <= m_capacity']_vars

\* C8 as stated: a setf that does not abort returns the formatted length and
\* leaves size() equal to it and view() equal to the rendered text.
C8_SetfSets ==
    [][(op' = "setf" /\ fault' = "none") =>
           /\ ret' = Len(arg')
           /\ m_size' = ret'
           /\ View' = arg']_vars

\* C9 as stated: a copy of an owning object never leaves two objects
\* responsible for one buffer. The copy of an object in a heap block holds
\* another heap block, the copy of an object in its local buffer does not
\* point into that buffer as an owner, and the two destructors release no
\* block twice and nothing that is not a heap block.
C9_CopySingleOwner ==
    /\ fault \notin {"double_free", "invalid_free"}
    /\ (copy.state = "live" /\ alive /\ m_owned = 1 /\ copy.owned = 1) =>
          copy.data \notin {m_data, local_buf(0)}

\* C10: no leak and no invalid release on one object. No call and no
\* destructor releases a block twice or releases anything but a live heap
\* block (the local buffer, EmptyBuffer and the caller's bytes are never
\* released); every live heap block is the buffer the live object owns, so
\* the destructor leaves none; the object never points at a released block.
C10_NoLeakNoBadRelease ==
    /\ fault \notin {"double_free", "invalid_free", "use_after_free"}
    /\ fault = "none" =>
          /\ \A a \in Addr :
                heap[a].live => alive /\ m_owned = 1 /\ m_data = HeapPtr(a)
          /\ (alive /\ m_data.k = "heap") => heap[m_data.a].live

\* An object that grew into a heap block and let go of it for the caller's
\* bytes has been destroyed, and no block is live.
C10_Witness ==
    /\ ~alive /\ op = "dtor" /\ calls = 3 /\ fault = "none"
    /\ m_data = ExtPtr /\ m_owned = 0
    /\ \A a \in Addr : ~heap[a].live

\* C11: the object never writes through unowned data. No call other than
\* set_ref changes the caller's bytes while m_data points at them, and no
\* call writes into the EmptyBuffer literal: a call that would write through
\* an unowned m_data first takes a buffer of its own or stops at
\* STR_ASSERT(m_owned).
C11_NoWriteUnowned ==
    [][op' \notin {"set_ref", "mutate_ext"} =>
           /\ fault' # "write_to_literal"
           /\ m_data = ExtPtr => ext' = ext]_vars

\* setf on a Reference whose 10 bytes are room enough for the text stopped at
\* the assertion, the caller's bytes untouched.
C11_Witness ==
    /\ op = "setf" /\ arg = <<2>> /\ fault = "assert"
    /\ m_owned = 0 /\ m_data = ExtPtr
    /\ View = Run(10)

\* C12 as stated: size <= capacity in every state reachable by the public
\* operations, direct calls of reserve_discard on a Reference included.
C12_SizeWithinCapacity == m_size <= m_capacity

\* Every call but reserve_discard keeps size <= capacity when it returns.
C12_OthersKeepSize ==
    [][(m_size <= m_capacity /\ op' # "reserve_discard" /\ fault' = "none") =>
           m_size' <= m_capacity']_vars

\* C13 as stated: in every reachable state in which owned is true the byte
\* at offset size of the active buffer is the terminator 0.
C13_Terminated ==
    (alive /\ fault = "none" /\ m_owned = 1) =>
        /\ m_size < BlockOf(Cur, m_data).alloc
        /\ ByteAt(BlockOf(Cur, m_data), m_size) = 0

\* The calls that write the terminator themselves leave it at offset size.
C13_WritersTerminate ==
    [][(op' \in {"append", "append_nogrow", "appendf", "appendf_nogrow",
                 "clear", "reserve"}
          /\ fault' = "none" /\ m_owned' = 1 /\ ret' # -1
          /\ (op' = "reserve" => m_data' # m_data)) =>
           ByteAt(BlockOf(Cur, m_data)', m_size') = 0]_vars

\* C14 as stated: on a variant with a local buffer of N bytes, from every
\* prior state, set(b) with length(b) < N leaves the object owned with its
\* data in its own local buffer.
C14_ShortSetInline ==
    [][(op' = "set" /\ N > 0 /\ Len(arg') < N /\ fault' = "none") =>
           m_owned' = 1 /\ m_data' = local_buf(0)]_vars

\* Where set(b) does end in the local buffer: the object was there and b with
\* its terminator fits the capacity, or the buffer in use had no room for b
\* and length(b) + 1 is strictly below m_local_size.
C14_SetInlineExactly ==
    [][(op' = "set" /\ fault' = "none") =>
           (m_data' = local_buf(0) <=>
              \/ m_owned = 1 /\ m_data = local_buf(0)
                    /\ Len(arg') + 1 <= m_capacity
              \/ ~(m_owned = 1 /\ Len(arg') + 1 <= m_capacity)
                    /\ Len(arg') + 1 < m_local_size)]_vars

\* C15: on every variant (N = 0 is the base type), from every prior state,
\* set(b) with length(b) >= N leaves the data in a live heap block the
\* object owns, with capacity >= length(b), the block being of capacity
\* bytes.
C15_LongSetHeap ==
    [][(op' = "set" /\ Len(arg') >= N) =>
           /\ fault' = "none"
           /\ m_owned' = 1
           /\ m_data'.k = "heap" /\ heap'[m_data'.a].live
           /\ m_capacity' >= Len(arg')
           /\ heap'[m_data'.a].alloc = m_capacity']_vars

\* A Str256 that a first set had left in its local buffer holds 256 bytes in
\* a heap block of 257.
C15_Witness ==
    /\ op = "set" /\ arg = Run(256) /\ N = 256 /\ calls = 2
    /\ m_data.k = "heap" /\ m_owned = 1 /\ m_capacity = 257
    /\ View = Run(256)

\* C16 as stated: clear() from any reachable state yields size() = 0; on a
\* variant with a local buffer (N > 0) it yields the Inline state, owned, with
\* capacity() = N; on the base type it yields the Empty state, capacity() = 0,
\* not owned; a heap block the object owned is released.
C16_ClearResets ==
    [][op' = "clear" =>
           /\ fault' = "none"
           /\ m_size' = 0
           /\ N > 0 => /\ m_data' = local_buf(0)
                       /\ m_owned' = 1
                       /\ m_capacity' = N
           /\ N = 0 => /\ m_data' = EmptyBuffer
                       /\ m_owned' = 0
                       /\ m_capacity' = 0
           /\ (m_owned = 1 /\ m_data.k = "heap") => ~heap'[m_data.a].live]_vars

\* What clear() does: the same with the m_local_size field in the place of
\* the declared size N.
C16_ClearByLocalSize ==
    [][op' = "clear" =>
           /\ fault' = "none"
           /\ m_size' = 0
           /\ m_local_size > 0 => /\ m_data' = local_buf(0)
                                  /\ m_owned' = 1
                                  /\ m_capacity' = m_local_size
                                  /\ ByteAt(m_local_buf', 0) = 0
           /\ m_local_size = 0 => /\ m_data' = EmptyBuffer
                                  /\ m_owned' = 0
                                  /\ m_capacity' = 0
           /\ (m_owned = 1 /\ m_data.k = "heap") => ~heap'[m_data.a].live]_vars

\* C17: shrink_to_fit() on an owned heap-resident object with
\* capacity > size + 1 sets capacity() to size() + 1, in a block of that many
\* bytes, and leaves view(), size() and owned() unchanged; in every other
\* state it changes nothing; so a second call right after changes nothing.
C17_ShrinkToFit ==
    [][op' = "shrink_to_fit" =>
           /\ fault' = "none"
           /\ (m_owned = 1 /\ m_data.k = "heap" /\ m_capacity > m_size + 1) =>
                 /\ m_capacity' = m_size + 1
                 /\ m_data'.k = "heap"
                 /\ heap'[m_data'.a] = [live |-> TRUE, alloc |-> m_size + 1,
                                        fill |-> heap'[m_data'.a].fill,
                                        bytes |-> heap'[m_data'.a].bytes]
                 /\ View' = View /\ m_size' = m_size /\ m_owned' = 1
                 /\ ByteAt(heap'[m_data'.a], m_size) = ByteAt(heap[m_data.a], m_size)
           /\ ~(m_owned = 1 /\ m_data.k = "heap" /\ m_capacity > m_size + 1) =>
                 UNCHANGED <<m_data, m_size, m_capacity, m_owned, m_local_size,
                             m_local_buf, heap>>
           /\ ~(m_owned' = 1 /\ m_data'.k = "heap" /\ m_capacity' > m_size' + 1)]_vars

\* A Str16 that set had moved to a heap block of 17 bytes holds 2 bytes in a
\* block of 3.
C17_Witness ==
    /\ op = "shrink_to_fit" /\ calls = 3 /\ fault = "none" /\ N = 16
    /\ m_data.k = "heap" /\ m_capacity = 3 /\ heap[m_data.a].alloc = 3
    /\ View = <<1, 2>> /\ ByteAt(heap[m_data.a], 2) = 0

\* C18 as stated: on a string of length n >= 1 reading index -1 succeeds and
\* returns the last byte of the content, the byte index n - 1 returns; every
\* index i with 0 <= i < n passes the bounds assertion and returns the i-th
\* byte.
C18_IndexAccess ==
    [][(op' = "index" /\ ViewDefined /\ m_size >= 1) =>
           LET i == arg'[1] IN
           /\ i = -1 => fault' = "none" /\ ret' = View[m_size]
           /\ (0 <= i /\ i < m_size) => fault' = "none" /\ ret' = View[i + 1]]_vars

\* What operator[] does: its bounds assertion fails for every index on every
\* string, because -m_size < i is evaluated in size_t.
C18_IndexAsserts == [][op' = "index" => fault' = "assert"]_vars

\* C19 as stated: allocation failure is fatal and fail-fast. When malloc
\* returns NULL inside a call, nothing is copied or written through the null
\* pointer, and no state with data = NULL and owned = 1 is reachable.
C19_AllocFailureFatal ==
    /\ fault # "null_deref"
    /\ ~(m_data = NullPtr /\ m_owned = 1)

\* C20 as stated: set always produces a null-terminated result. From every
\* prior state and for every source range, whatever byte follows the range
\* in the caller's memory, after set(src) the object is owned and the byte at
\* offset size() of its buffer is 0: set takes nothing from outside the
\* range.
C20_SetTerminates ==
    [][op' = "set" =>
           /\ fault' = "none"
           /\ m_owned' = 1
           /\ ByteAt(BlockOf(Cur, m_data)', m_size') = 0]_vars

\* What set leaves at offset size(): one of the bytes that may follow the
\* range in the caller's memory, the terminator only if that byte is 0.
C20_SetCopiesTrail ==
    [][op' = "set" =>
           /\ fault' = "none"
           /\ ByteAt(BlockOf(Cur, m_data)', m_size') \in Trail]_vars

\* C21: reserve(n) with n <= capacity changes nothing. Otherwise, from every
\* reachable state with size <= capacity, it leaves the object owned with
\* capacity >= n, size unchanged, the first size bytes of the new buffer
\* equal to the old content and a terminator at offset size; the old buffer
\* is released if and only if it was an owned heap block.
C21_Reserve ==
    [][op' = "reserve" =>
         LET n == arg'[1] IN
         /\ n <= m_capacity =>
               /\ fault' = "none"
               /\ UNCHANGED <<m_data, m_size, m_capacity, m_owned, m_local_buf,
                              heap>>
         /\ (n > m_capacity /\ m_size <= m_capacity) =>
               /\ fault' = "none"
               /\ m_owned' = 1
               /\ m_capacity' >= n
               /\ m_size' = m_size
               /\ m_data' # m_data
               /\ View' = View
               /\ ByteAt(BlockOf(Cur, m_data)', m_size') = 0
               /\ \A a \in Addr :
                     (heap[a].live /\ ~heap'[a].live) <=>
                        (m_owned = 1 /\ m_data = HeapPtr(a))]_vars

\* A Str holding 2 bytes in a heap block of 3 has moved to a block of 12 and
\* released the first.
C21_Witness ==
    /\ op = "reserve" /\ arg = <<12>> /\ fault = "none" /\ N = 0
    /\ m_data = HeapPtr(2) /\ heap[2].alloc = 12 /\ m_capacity = 12
    /\ ~heap[1].live
    /\ m_owned = 1 /\ View = <<1, 2>> /\ ByteAt(heap[2], 2) = 0

\* C22 as stated: a growth step (reserve, directly or inside append or
\* appendf) takes the local buffer as its target only from an unowned prior
\* state; no sequence of calls makes it move an owned heap-resident object
\* back into its local buffer.
C22_LocalOnlyFromUnowned ==
    [][(op' \in {"reserve", "append", "appendf"}
          /\ m_data # local_buf(0) /\ m_data' = local_buf(0)) =>
           m_owned = 0]_vars

\* C23 as stated: the declared local buffer size N is the floor for heap
\* use. No call allocates a heap block of fewer than N bytes, and no call
\* changes the m_local_size field.
C23_LocalFloor ==
    [][/\ \A a \in Addr :
            (heap'[a].live /\ (~heap[a].live \/ heap'[a].alloc # heap[a].alloc))
               => heap'[a].alloc >= N
       /\ m_local_size' = m_local_size]_vars

\* What does hold: the growing calls never allocate below the m_local_size
\* field, and nothing changes that field; shrink_to_fit and, on a Str256
\* whose field holds 0, every call may allocate below N.
C23_FloorOfGrowth ==
    [][/\ op' # "shrink_to_fit" =>
            \A a \in Addr :
              (heap'[a].live /\ (~heap[a].live \/ heap'[a].alloc # heap[a].alloc))
                 => heap'[a].alloc >= m_local_size
       /\ m_local_size' = m_local_size]_vars

\* C24 as stated: for every local buffer size the constructor accepts, the
\* constructed object records m_local_size = N and m_capacity = N and is
\* owned, in its local buffer and empty; a size the m_local_size field cannot
\* hold fails the constructor's assertion instead of being stored modulo the
\* width of the field.
C24_CtorRecordsSize ==
    op = "ctor" =>
        /\ fault = "none" => /\ m_local_size = N
                             /\ m_capacity = N
                             /\ m_owned = 1
                             /\ m_data = local_buf(0)
                             /\ m_size = 0
                             /\ ByteAt(m_local_buf, 0) = 0
        /\ N >= 2 ^ LocalBits => fault = "assert"

\* What the constructor does: it accepts every size up to 256, stops at the
\* assertion above it, and records the size modulo 2^8 in m_local_size.
C24_CtorByWidth ==
    op = "ctor" =>
        /\ fault = "none" <=> N <= 256
        /\ fault = "none" => /\ m_local_size = N % (2 ^ LocalBits)
                             /\ m_capacity = N
                             /\ m_owned = 1
                             /\ m_data = local_buf(0)
                             /\ m_size = 0

\* C25: the ownership tag. In every state reachable by the calls on one
\* object, m_data is the EmptyBuffer literal (Empty), the caller's bytes
\* (Reference), the object's local buffer (Inline) or a heap block (Heap), and
\* m_owned is set exactly when m_data is the local buffer or a live heap
\* block: Inline and Heap are owned, Empty and Reference are not.
C25_OwnershipTag ==
    (alive /\ fault = "none") =>
        /\ m_data.k \in {"empty", "ext", "local", "heap"}
        /\ m_owned = 1 <=>
              \/ m_data = local_buf(0)
              \/ m_data.k = "heap" /\ heap[m_data.a].live
        /\ m_data \in {EmptyBuffer, ExtPtr} => m_owned = 0

\* A Str16 that had grown into a heap block refers to the caller's bytes:
\* not owned, the block released.
C25_Witness ==
    /\ op = "set_ref" /\ calls = 2 /\ fault = "none" /\ alive /\ N = 16
    /\ m_data = ExtPtr /\ m_owned = 0 /\ View = <<2, 1>>
    /\ heap[1].alloc = 0 /\ \A a \in Addr : ~heap[a].live
    /\ m_local_size = 16

\* C26 as stated: the no-grow calls never allocate. From every reachable
\* state and for every argument, setf_nogrow, append_nogrow and
\* appendf_nogrow leave m_data, capacity and owned as they were and neither
\* allocate nor release a heap block.
C26_NogrowFrame ==
    [][op' \in {"setf_nogrow", "append_nogrow", "appendf_nogrow"} =>
           /\ m_data' = m_data
           /\ m_capacity' = m_capacity
           /\ m_owned' = m_owned
           /\ \A a \in Addr : /\ heap'[a].live = heap[a].live
                               /\ heap'[a].alloc = heap[a].alloc]_vars

\* append_nogrow and appendf_nogrow do keep the frame.
C26_AppendNogrowFrame ==
    [][op' \in {"append_nogrow", "appendf_nogrow"} =>
           /\ m_data' = m_data
           /\ m_capacity' = m_capacity
           /\ m_owned' = m_owned
           /\ \A a \in Addr : /\ heap'[a].live = heap[a].live
                               /\ heap'[a].alloc = heap[a].alloc]_vars

\* C27: in every reachable state in which owned is false (Empty or
\* Reference) capacity = size; so append on an unowned object always takes
\* the growing path of reserve and ends owned in a buffer of its own, and
\* append_nogrow on an unowned object always returns -1 and writes nothing.
C27_UnownedCapacityIsSize ==
    /\ []((alive /\ fault = "none" /\ m_owned = 0) => m_capacity = m_size)
    /\ [][/\ (m_owned = 0 /\ op' = "append") =>
                /\ fault' = "none"
                /\ m_data' # m_data /\ m_data'.k \in {"local", "heap"}
                /\ m_owned' = 1
                /\ m_capacity' >= m_size + Len(arg') + 1
          /\ (m_owned = 0 /\ op' = "append_nogrow") =>
                /\ ret' = -1
                /\ fault' = "none"
                /\ UNCHANGED <<m_data, m_size, m_capacity, m_owned,
                               m_local_buf, heap>>
                /\ (m_data = ExtPtr => ext' = ext)]_vars

\* append_nogrow of one byte on a Str16 that refers to 10 bytes of the
\* caller returned -1.
C27_Witness ==
    /\ op = "append_nogrow" /\ arg = <<2>> /\ ret = -1 /\ fault = "none"
    /\ N = 16 /\ m_owned = 0 /\ m_data = ExtPtr
    /\ m_size = 10 /\ m_capacity = 10 /\ View = Run(10)

====
